---- MODULE Spec2Model ----
(***************************************************************************)
(* A model of the wordle solver: the two scoring functions                 *)
(* (word.rs Word::evaluate_guess, lib.rs Engine::evaluate_no_wordlist),    *)
(* the narrowing of a word list (word.rs WordList::retain_viable_words),   *)
(* the session (lib.rs Game::make_guess), the solving strategy (lib.rs     *)
(* SimpleStrategy), the loop that drives them (lib.rs run_strategy), the   *)
(* solver of the binary (strategy.rs SimpleStrategy), its engine           *)
(* (engine.rs StandardEngine) and the interactive strategy that hands over *)
(* to the solver (strategy.rs StdinThenSolver).                            *)
(*                                                                         *)
(* A word is a sequence of letters, a letter a one-character string, a     *)
(* score a sequence of "RightPlace" / "RightLetter" / "Wrong".             *)
(***************************************************************************)
EXTENDS Naturals, Sequences, FiniteSets

VARIABLES
    eval,        \* scoring harness: [self, guess, score, annotations], score and
                 \* annotations None before the call of each scorer
    narrow,      \* narrowing harness: [viable_words, guess, score, calls], a
                 \* word.rs WordList and the arguments it is narrowed with
    solver,      \* strategy.rs SimpleStrategy's fields
    then_solver, \* strategy.rs StdinThenSolver's fields, the strategy cell holding
                 \* Stdin or Algo(a SimpleStrategy)
    standard_engine, \* engine.rs StandardEngine's fields
    game,        \* lib.rs Game: [state |-> [guesses], engine |-> [word_list, secret_word]]
    NUM_GUESSES, \* lib.rs Game's const generic NUM_GUESSES (fixed per session), or
                 \* the num_guesses StandardEngine::new was handed
    strategy,    \* lib.rs SimpleStrategy's fields
    pc,          \* position of the caller (run_strategy's loop, or the free caller;
                 \* the solver's caller is at the call it last returned from)
    guess,       \* the word last handed to Game::make_guess, or last returned by
                 \* the strategy's make_guess (None before)
    ret,         \* what Game::make_guess / StandardEngine::score_guess last
                 \* returned (NoRet before)
    result,      \* what run_strategy returned (NoRet while running)
    stdout       \* the strategy's println! lines "Guess: .." and "Answer: ..", as
                 \* <<"Guess", word>> and <<"Answer", score>>; StdinGuesser's
                 \* "Score was .." lines, as <<"Score was", score>>

vars == <<eval, narrow, solver, then_solver, standard_engine, game, NUM_GUESSES, strategy, pc, guess, ret,
         result, stdout>>

----------------------------------------------------------------------------
(* Bounds of the model *)

\* length of the words of one run (the const generic WORD_LENGTH / N)
WORD_LENGTH == 3

\* number of letters the scoring harness draws its words from
NumLetters == 3

\* longest dictionary handed to run_strategy / Engine
MaxDictLen == 3

\* longest dictionary of a session driven by a free caller
MaxGameDictLen == 2

\* largest small guess cap tried (next to the test's cap of 10)
MaxCap == 3

\* longest word list handed to the narrowing harness
MaxRetainLen == 2

\* number of times the harness narrows its list with the same arguments
MaxRetainCalls == 2

\* number of guesses the solver's caller asks for at most
MaxSolverGuesses == 10

\* the guesses the user types before letting the solver take over
MaxStdinGuesses == 2

\* the cap test_simple_strategy runs with: run_strategy::<SimpleStrategy<5>, 5, 10>
TestCap == 10

----------------------------------------------------------------------------
(* Words *)

Letters == <<"a", "b", "c", "x", "y", "z">>

Alphabet == {Letters[i] : i \in 1..NumLetters}

\* all words of length n over the letters in S
WordsOver(S, n) == [1..n -> S]

Words == WordsOver(Alphabet, WORD_LENGTH)

RightPlace == "RightPlace"
RightLetter == "RightLetter"
Wrong == "Wrong"

LetterScore == {RightPlace, RightLetter, Wrong}

\* [x; n]
RECURSIVE Repeat(_, _)
Repeat(x, n) == IF n = 0 THEN <<>> ELSE Append(Repeat(x, n - 1), x)

\* Option::None for a word or a score (no word and no score is empty)
None == <<>>

\* Vec::contains / slice::contains
Contains(list, w) == \E i \in 1..Len(list) : list[i] = w

\* the elements of a list, as a set
Elems(list) == {list[i] : i \in 1..Len(list)}

----------------------------------------------------------------------------
(* word.rs Word::evaluate_guess: the availability counter *)

\* HashMap entry(k).or_insert(0) then += 1
CounterIncr(m, k) ==
    IF k \in DOMAIN m THEN [m EXCEPT ![k] = @ + 1]
    ELSE [x \in DOMAIN m \cup {k} |-> IF x = k THEN 1 ELSE m[x]]

\* Occupied entry: remove_entry when the count is 1, else -= 1
CounterTake(m, k) ==
    IF m[k] = 1 THEN [x \in DOMAIN m \ {k} |-> m[x]]
    ELSE [m EXCEPT ![k] = @ - 1]

EmptyCounter == [x \in {} |-> 0]

\* the first pass counting the guess's letters in place of the secret's
RECURSIVE FirstPassCountsGuess(_, _, _, _)
FirstPassCountsGuess(self, g, i, acc) ==
    IF i > Len(self) THEN acc
    ELSE IF self[i] = g[i]
         THEN FirstPassCountsGuess(self, g, i + 1, [acc EXCEPT !.score[i] = RightPlace])
         ELSE FirstPassCountsGuess(self, g, i + 1,
                        [acc EXCEPT !.unused_letters = CounterIncr(@, g[i]),
                                    !.remaining_letters = Append(@, <<i, g[i]>>)])

\* the filter_map over the zipped letters (word.rs 48-63): marks RightPlace,
\* counts the secret's other letters, collects the guess's other positions
RECURSIVE FirstPass(_, _, _, _)
FirstPass(self, g, i, acc) ==
    IF i > Len(self) THEN acc
    ELSE IF self[i] = g[i]
         THEN FirstPass(self, g, i + 1, [acc EXCEPT !.score[i] = RightPlace])
         ELSE FirstPass(self, g, i + 1,
                        [acc EXCEPT !.unused_letters = CounterIncr(@, self[i]),
                                    !.remaining_letters = Append(@, <<i, g[i]>>)])

\* the same second pass with the decrement left out: a letter once available
\* stays available
RECURSIVE SecondPassNoDecrement(_, _, _)
SecondPassNoDecrement(remaining, unused, score) ==
    IF remaining = <<>> THEN score
    ELSE LET i == Head(remaining)[1]
             guess_letter == Head(remaining)[2]
         IN IF guess_letter \in DOMAIN unused
            THEN SecondPassNoDecrement(Tail(remaining), unused,
                                       [score EXCEPT ![i] = RightLetter])
            ELSE SecondPassNoDecrement(Tail(remaining), unused, score)

\* the for_each over remaining_letters (word.rs 65-74)
RECURSIVE SecondPass(_, _, _)
SecondPass(remaining, unused, score) ==
    IF remaining = <<>> THEN score
    ELSE LET i == Head(remaining)[1]
             guess_letter == Head(remaining)[2]
         IN IF guess_letter \in DOMAIN unused
            THEN SecondPass(Tail(remaining), CounterTake(unused, guess_letter),
                            [score EXCEPT ![i] = RightLetter])
            ELSE SecondPass(Tail(remaining), unused, score)

\* evaluate_guess whose second pass never decrements
evaluate_guess_no_decrement(self, g) ==
    LET first == FirstPass(self, g, 1,
                           [score |-> Repeat(Wrong, Len(self)),
                            unused_letters |-> EmptyCounter,
                            remaining_letters |-> <<>>])
    IN SecondPassNoDecrement(first.remaining_letters, first.unused_letters, first.score)

\* Word::evaluate_guess(&self, guess): self is the secret
evaluate_guess(self, g) ==
    LET first == FirstPass(self, g, 1,
                           [score |-> Repeat(Wrong, Len(self)),
                            unused_letters |-> EmptyCounter,
                            remaining_letters |-> <<>>])
    IN SecondPass(first.remaining_letters, first.unused_letters, first.score)

\* retain_viable_words with the two words of the scoring exchanged: the guess
\* taken as the secret, the list's word as the guess
retain_viable_words_swapped(list, g, observed) ==
    LET Keep(word) == evaluate_guess(g, word) = observed
    IN SelectSeq(list, Keep)

\* retain_viable_words that also drops the first word kept
retain_viable_words_drop_first(list, g, observed) ==
    LET Keep(word) == evaluate_guess(word, g) = observed
        kept == SelectSeq(list, Keep)
    IN IF kept = <<>> THEN kept ELSE Tail(kept)

\* WordList::retain_viable_words(&mut self, guess, score) (word.rs 17-19): the
\* list after the call
retain_viable_words(list, g, observed) ==
    LET Keep(word) == evaluate_guess(word, g) = observed
    IN SelectSeq(list, Keep)

----------------------------------------------------------------------------
(* The scoring harness: a secret and a guess are drawn, then scored *)

Word3(a, b, c) == <<a, b, c>>

\* the eight cases of lib.rs test_evaluate, as <<secret, guess, expected>>
\* (the test's evaluate(word, secret_word) takes the guess first)
TestCases ==
    { <<Word3("a","a","a"), Word3("x","x","x"), <<Wrong, Wrong, Wrong>> >>,
      <<Word3("x","x","x"), Word3("x","x","x"), <<RightPlace, RightPlace, RightPlace>> >>,
      <<Word3("c","a","b"), Word3("a","b","c"), <<RightLetter, RightLetter, RightLetter>> >>,
      <<Word3("c","b","a"), Word3("a","b","c"), <<RightLetter, RightPlace, RightLetter>> >>,
      <<Word3("a","a","a"), Word3("a","a","b"), <<RightPlace, RightPlace, Wrong>> >>,
      <<Word3("x","x","x"), Word3("y","y","x"), <<Wrong, Wrong, RightPlace>> >>,
      <<Word3("y","y","x"), Word3("x","x","x"), <<Wrong, Wrong, RightPlace>> >>,
      <<Word3("y","y","x"), Word3("x","y","y"), <<RightLetter, RightPlace, RightLetter>> >> }

EvalInputs ==
    {<<s, g>> : s \in Words, g \in Words} \cup {<<t[1], t[2]>> : t \in TestCases}

----------------------------------------------------------------------------
(* lib.rs Engine: evaluate_no_wordlist, evaluate *)

\* the first map leaving the secret's letter unused where the letters agree
RECURSIVE MarkRightPlaceUnused(_, _, _, _)
MarkRightPlaceUnused(secret_word, word, i, acc) ==
    IF i > Len(word) THEN acc
    ELSE IF secret_word[i] = word[i]
         THEN MarkRightPlaceUnused(secret_word, word, i + 1,
                                   [acc EXCEPT !.annotations[i] = RightPlace])
         ELSE MarkRightPlaceUnused(secret_word, word, i + 1, acc)

\* the first map (lib.rs 34-45): RightPlace where the letters agree, and the
\* secret's letter there is used
RECURSIVE MarkRightPlace(_, _, _, _)
MarkRightPlace(secret_word, word, i, acc) ==
    IF i > Len(word) THEN acc
    ELSE IF secret_word[i] = word[i]
         THEN MarkRightPlace(secret_word, word, i + 1,
                             [acc EXCEPT !.secret_letter_used[i] = TRUE,
                                         !.annotations[i] = RightPlace])
         ELSE MarkRightPlace(secret_word, word, i + 1, acc)

\* find_map over the secret (lib.rs 49-57): the first unused position of the
\* secret holding c, 0 when there is none
FirstUnused(secret_word, secret_letter_used, c) ==
    LET hits == {j \in 1..Len(secret_word) :
                    ~secret_letter_used[j] /\ secret_word[j] = c}
    IN IF hits = {} THEN 0 ELSE CHOOSE j \in hits : \A k \in hits : j <= k

\* the second map (lib.rs 47-62), left to right over the guess
RECURSIVE MarkRightLetter(_, _, _, _)
MarkRightLetter(secret_word, word, i, acc) ==
    IF i > Len(word) THEN acc.annotations
    ELSE IF acc.annotations[i] = Wrong
         THEN LET j == FirstUnused(secret_word, acc.secret_letter_used, word[i])
              IN IF j = 0
                 THEN MarkRightLetter(secret_word, word, i + 1, acc)
                 ELSE MarkRightLetter(secret_word, word, i + 1,
                                      [acc EXCEPT !.secret_letter_used[j] = TRUE,
                                                  !.annotations[i] = RightLetter])
         ELSE MarkRightLetter(secret_word, word, i + 1, acc)

\* evaluate_no_wordlist without its first map: no position is RightPlace
evaluate_no_wordlist_letters_only(secret_word, word) ==
    MarkRightLetter(secret_word, word, 1,
                    [secret_letter_used |-> Repeat(FALSE, Len(word)),
                     annotations |-> Repeat(Wrong, Len(word))])

\* Engine::evaluate_no_wordlist(&self, word), self.secret_word given
evaluate_no_wordlist(secret_word, word) ==
    MarkRightLetter(secret_word, word, 1,
        MarkRightPlace(secret_word, word, 1,
                       [secret_letter_used |-> Repeat(FALSE, Len(word)),
                        annotations |-> Repeat(Wrong, Len(word))]))

Ok(v) == [kind |-> "Ok", val |-> v]
Err(e) == [kind |-> "Err", val |-> e]

\* Engine::evaluate(&self, word)
evaluate(engine, word) ==
    IF Contains(engine.word_list, word)
    THEN Ok(evaluate_no_wordlist(engine.secret_word, word))
    ELSE Err("NotInWordList")

\* a win test that is satisfied by one RightPlace annotation
AnyRightPlace(score) == \E i \in 1..Len(score) : score[i] = RightPlace

AllRightPlace(score) == \A i \in 1..Len(score) : score[i] = RightPlace

----------------------------------------------------------------------------
(* lib.rs Game::make_guess *)

Done(b) == [kind |-> "Done", val |-> b]
Continue(score) == [kind |-> "Continue", val |-> score]
NoRet == [kind |-> "none", val |-> None]

\* Game::make_guess with the cap tested by <= : one guess too many is taken
make_guess_off_by_one(g, cap, word) ==
    IF Len(g.state.guesses) <= cap
    THEN LET e == evaluate(g.engine, word)
         IN IF e.kind = "Err"
            THEN [game |-> g, ret |-> e]
            ELSE LET pushed == [g EXCEPT !.state.guesses = Append(@, <<word, e.val>>)]
                 IN [game |-> pushed,
                     ret |-> Ok(IF AllRightPlace(e.val) THEN Done(TRUE)
                                ELSE IF Len(pushed.state.guesses) = cap THEN Done(FALSE)
                                ELSE Continue(e.val))]
    ELSE [game |-> g, ret |-> Err("TooManyGuesses")]

\* Game::make_guess scoring with evaluate_no_wordlist: the word list is not
\* consulted
make_guess_no_wordlist(g, cap, word) ==
    IF Len(g.state.guesses) < cap
    THEN LET e == Ok(evaluate_no_wordlist(g.engine.secret_word, word))
             pushed == [g EXCEPT !.state.guesses = Append(@, <<word, e.val>>)]
         IN [game |-> pushed,
             ret |-> Ok(IF AllRightPlace(e.val) THEN Done(TRUE)
                        ELSE IF Len(pushed.state.guesses) = cap THEN Done(FALSE)
                        ELSE Continue(e.val))]
    ELSE [game |-> g, ret |-> Err("TooManyGuesses")]

\* Game::make_guess testing the cap before the win: a win on the last attempt
\* is reported lost
make_guess_cap_first(g, cap, word) ==
    IF Len(g.state.guesses) < cap
    THEN LET e == evaluate(g.engine, word)
         IN IF e.kind = "Err"
            THEN [game |-> g, ret |-> e]
            ELSE LET pushed == [g EXCEPT !.state.guesses = Append(@, <<word, e.val>>)]
                 IN [game |-> pushed,
                     ret |-> Ok(IF Len(pushed.state.guesses) = cap THEN Done(FALSE)
                                ELSE IF AllRightPlace(e.val) THEN Done(TRUE)
                                ELSE Continue(e.val))]
    ELSE [game |-> g, ret |-> Err("TooManyGuesses")]

\* Game::make_guess(&mut self, word): the game after the call and what the
\* call returned
\* make_guess that scores the guess without recording it in state.guesses
make_guess_no_push(g, cap, word) ==
    IF Len(g.state.guesses) < cap
    THEN LET e == evaluate(g.engine, word)
         IN IF e.kind = "Err"
            THEN [game |-> g, ret |-> e]
            ELSE [game |-> g,
                  ret |-> Ok(IF AllRightPlace(e.val) THEN Done(TRUE)
                             ELSE IF Len(g.state.guesses) = cap THEN Done(FALSE)
                             ELSE Continue(e.val))]
    ELSE [game |-> g, ret |-> Err("TooManyGuesses")]

make_guess(g, cap, word) ==
    IF Len(g.state.guesses) < cap
    THEN LET e == evaluate(g.engine, word)
         IN IF e.kind = "Err"
            THEN [game |-> g, ret |-> e]
            ELSE LET pushed == [g EXCEPT !.state.guesses = Append(@, <<word, e.val>>)]
                 IN [game |-> pushed,
                     ret |-> Ok(IF AllRightPlace(e.val) THEN Done(TRUE)
                                ELSE IF Len(pushed.state.guesses) = cap THEN Done(FALSE)
                                ELSE Continue(e.val))]
    ELSE [game |-> g, ret |-> Err("TooManyGuesses")]

----------------------------------------------------------------------------
(* lib.rs SimpleStrategy *)

\* HashSet::<char>::from(word)
Bag(word) == Elems(word)

\* recompute_viable_bags (lib.rs 196-203)
recompute_viable_bags(self) ==
    [self EXCEPT !.viable_bags = [i \in 1..Len(self.viable_words) |-> Bag(self.viable_words[i])]]

\* Strategy::init (lib.rs 209-220)
init(word_list) ==
    recompute_viable_bags([word_list |-> word_list,
                           viable_words |-> word_list,
                           viable_bags |-> <<>>,
                           last_guess |-> None,
                           right_place |-> {},
                           num_guesses |-> 0])

\* the filter(..).count() of score (lib.rs 168-177) for one possible secret:
\* the viable words, other than the guess itself, that answer differently
Eliminated(self, word, secret) ==
    LET answer == evaluate_no_wordlist(secret, word)
    IN Cardinality({i \in 1..Len(self.viable_words) :
                       /\ self.viable_words[i] # word
                       /\ answer # evaluate_no_wordlist(self.viable_words[i], word)})

\* Iterator::min over a non-empty set of numbers
Min(S) == CHOOSE m \in S : \A n \in S : m <= n

\* score counting the viable words that answer the same: those the guess keeps
score_kept(self, word) ==
    Min({Len(self.viable_words) - Eliminated(self, word, self.viable_words[i])
            : i \in 1..Len(self.viable_words)})

\* SimpleStrategy::score (lib.rs 158-180); the unwrap panics on no viable word,
\* which the callers test before
score(self, word) ==
    Min({Eliminated(self, word, self.viable_words[i]) : i \in 1..Len(self.viable_words)})

\* Iterator::max_by_key returning the first element of maximal key
MaxByKeyFirst(list, keys) ==
    LET best == CHOOSE i \in 1..Len(list) :
                    /\ \A j \in 1..Len(list) : keys[j] <= keys[i]
                    /\ \A j \in 1..(i - 1) : keys[j] < keys[i]
    IN list[best]

\* Iterator::max_by_key on a non-empty list, keys[i] the key of list[i]: the
\* last element of maximal key
MaxByKey(list, keys) ==
    LET best == CHOOSE i \in 1..Len(list) :
                    /\ \A j \in 1..Len(list) : keys[j] <= keys[i]
                    /\ \A j \in (i + 1)..Len(list) : keys[j] < keys[i]
    IN list[best]

\* the hardcoded opening word (lib.rs 224, 226)
CRATE == <<"c", "r", "a", "t", "e">>

\* std::mem::transmute_copy(&src) to a [char; n]: the first n letters of src;
\* reading past src (n > Len(src)) is undefined, any letters may follow
TransmuteCopy(src, n, letters) ==
    IF n <= Len(src) THEN {SubSeq(src, 1, n)}
    ELSE {src \o t : t \in WordsOver(letters, n - Len(src))}

\* the source set of the heuristic (lib.rs 231-235)
Source(self) ==
    IF Len(self.viable_words) = 1 \/ self.num_guesses = 9
    THEN self.viable_words
    ELSE self.word_list

\* SimpleStrategy::make_guess (lib.rs 222-258), opener being what the
\* transmute_copy yields: the strategy after the call and the guess, or a panic
\* (max_by_key(..).unwrap() on an empty source, score's unwrap on no viable word)
strategy_make_guess(self, opener) ==
    IF self.viable_words = <<>> \/ (self.num_guesses >= 2 /\ Source(self) = <<>>)
    THEN [panic |-> TRUE, self |-> self, guess |-> None]
    ELSE LET source == Source(self)
             g == IF self.num_guesses = 0 THEN opener
                  ELSE IF self.num_guesses = 1 THEN opener
                  ELSE MaxByKey(source,
                                [i \in 1..Len(source) |-> score(self, source[i])])
         IN [panic |-> FALSE,
             self |-> [self EXCEPT !.last_guess = g, !.num_guesses = @ + 1],
             guess |-> g]

\* receive_answer with the two words of the scoring swapped: the last guess
\* taken as the secret, the viable word as the guess
receive_answer_swapped(self, answer) ==
    IF self.last_guess = None
    THEN [panic |-> TRUE, self |-> self]
    ELSE LET last_guess == self.last_guess
             Keep(viable_word) ==
                 evaluate([word_list |-> <<viable_word>>, secret_word |-> last_guess],
                          viable_word).val = answer
             placed == {last_guess[i] : i \in {k \in 1..Len(last_guess) : answer[k] = RightPlace}}
         IN [panic |-> FALSE,
             self |-> recompute_viable_bags(
                          [self EXCEPT !.viable_words = SelectSeq(@, Keep),
                                       !.right_place = @ \cup placed])]

\* SimpleStrategy::receive_answer (lib.rs 260-285); the expect panics when no
\* guess was made
receive_answer(self, answer) ==
    IF self.last_guess = None
    THEN [panic |-> TRUE, self |-> self]
    ELSE LET last_guess == self.last_guess
             Keep(viable_word) ==
                 evaluate([word_list |-> <<last_guess>>, secret_word |-> viable_word],
                          last_guess).val = answer
             placed == {last_guess[i] : i \in {k \in 1..Len(last_guess) : answer[k] = RightPlace}}
         IN [panic |-> FALSE,
             self |-> recompute_viable_bags(
                          [self EXCEPT !.viable_words = SelectSeq(@, Keep),
                                       !.right_place = @ \cup placed])]

----------------------------------------------------------------------------
(* strategy.rs SimpleStrategy *)

\* SimpleStrategy::new (strategy.rs 28-36)
SimpleStrategy_new(word_list) ==
    [word_list |-> word_list,
     viable_words |-> word_list,
     last_guess |-> None,
     right_place |-> {},
     num_guesses |-> 0]

\* the filter(..).count() of score (strategy.rs 44-50) for one possible secret
SolverEliminated(self, word, secret) ==
    LET sc == evaluate_guess(secret, word)
    IN Cardinality({i \in 1..Len(self.viable_words) :
                       /\ self.viable_words[i] # word
                       /\ sc # evaluate_guess(self.viable_words[i], word)})

\* SimpleStrategy::score (strategy.rs 38-53); the unwrap panics on no viable
\* word, which the callers test before
solver_score(self, word) ==
    Min({SolverEliminated(self, word, self.viable_words[i])
            : i \in 1..Len(self.viable_words)})

\* the hardcoded opening word (strategy.rs 190)
AROSE == <<"a", "r", "o", "s", "e">>

\* the source set of the heuristic (strategy.rs 195-199)
SolverSource(self) ==
    IF Len(self.viable_words) = 1 \/ self.num_guesses = 9
    THEN self.viable_words
    ELSE self.word_list

\* make_guess without the score printed at line 218: the opener is returned
\* whatever the candidates, the heuristic panics as before
solver_make_guess_no_score_print(self, opener) ==
    IF self.num_guesses >= 1 /\ (self.viable_words = <<>> \/ SolverSource(self) = <<>>)
    THEN [panic |-> TRUE, self |-> self, guess |-> None]
    ELSE LET source == SolverSource(self)
             g == IF self.num_guesses = 0 THEN opener
                  ELSE MaxByKey(source,
                                [i \in 1..Len(source) |-> solver_score(self, source[i])])
         IN [panic |-> FALSE,
             self |-> [self EXCEPT !.last_guess = g, !.num_guesses = @ + 1],
             guess |-> g]

\* make_guess returning the opener for its first two guesses, as lib.rs does
solver_make_guess_two_openers(self, opener) ==
    IF self.viable_words = <<>> \/ (self.num_guesses >= 2 /\ SolverSource(self) = <<>>)
    THEN [panic |-> TRUE, self |-> self, guess |-> None]
    ELSE LET source == SolverSource(self)
             g == IF self.num_guesses <= 1 THEN opener
                  ELSE MaxByKey(source,
                                [i \in 1..Len(source) |-> solver_score(self, source[i])])
         IN [panic |-> FALSE,
             self |-> [self EXCEPT !.last_guess = g, !.num_guesses = @ + 1],
             guess |-> g]

\* SimpleStrategy::make_guess (strategy.rs 188-223), opener being what the
\* transmute_copy yields: the strategy after the call and the guess, or a panic
\* (max_by_key(..).unwrap() on an empty source, score's unwrap on no viable
\* word, in the heuristic's key or in the println of line 218)
solver_make_guess(self, opener) ==
    IF self.viable_words = <<>> \/ (self.num_guesses >= 1 /\ SolverSource(self) = <<>>)
    THEN [panic |-> TRUE, self |-> self, guess |-> None]
    ELSE LET source == SolverSource(self)
             g == IF self.num_guesses = 0 THEN opener
                  ELSE MaxByKey(source,
                                [i \in 1..Len(source) |-> solver_score(self, source[i])])
         IN [panic |-> FALSE,
             self |-> [self EXCEPT !.last_guess = g, !.num_guesses = @ + 1],
             guess |-> g]

\* SimpleStrategy::receive_score (strategy.rs 225-242); the expect panics when
\* no guess was made
receive_score(self, sc) ==
    IF self.last_guess = None
    THEN [panic |-> TRUE, self |-> self]
    ELSE LET last_guess == self.last_guess
             placed == {last_guess[i] : i \in {k \in 1..Len(last_guess) : sc[k] = RightPlace}}
         IN [panic |-> FALSE,
             self |-> [self EXCEPT !.viable_words = retain_viable_words(@, last_guess, sc),
                                   !.right_place = @ \cup placed]]

----------------------------------------------------------------------------
(* strategy.rs StdinThenSolver *)

\* the two variants of StdinOrAlgo (strategy.rs 110-113)
Stdin == [kind |-> "Stdin"]
Algo(algo) == [kind |-> "Algo", algo |-> algo]

\* SimpleStrategy::set_viable_words (strategy.rs 19-24)
set_viable_words(self, viable_words) ==
    [self EXCEPT !.viable_words = viable_words, !.num_guesses = 1]

\* StdinThenSolver::new (strategy.rs 135-142)
StdinThenSolver_new(word_list) ==
    [word_list |-> word_list,
     last_guess |-> None,
     viable_words |-> word_list,
     strategy |-> Stdin]

\* StdinThenSolver::start_solver (strategy.rs 144-154): the cell is refilled
\* with Stdin before its old content is looked at
start_solver(self) ==
    IF self.strategy.kind = "Stdin"
    THEN [panic |-> FALSE,
          self |-> [self EXCEPT
                      !.viable_words = <<>>,
                      !.strategy = Algo(set_viable_words(SimpleStrategy_new(self.word_list),
                                                         self.viable_words))]]
    ELSE [panic |-> TRUE, self |-> [self EXCEPT !.strategy = Stdin]]

\* StdinThenSolver::make_guess (strategy.rs 246-262). answer is what the user
\* answers to "Do you want to let the solver take over?" (asked in Stdin mode
\* only, strategy.rs 156-184), typed the word the user enters when asked for
\* a guess
then_solver_make_guess(self, answer, typed, opener) ==
    LET switched == IF self.strategy.kind = "Stdin" /\ answer
                    THEN start_solver(self).self
                    ELSE self
    IN IF switched.strategy.kind = "Stdin"
       THEN [panic |-> FALSE,
             self |-> [switched EXCEPT !.last_guess = typed],
             guess |-> typed]
       ELSE LET r == solver_make_guess(switched.strategy.algo, opener)
            IN [panic |-> r.panic,
                self |-> [switched EXCEPT !.strategy = Algo(r.self)],
                guess |-> r.guess]

\* StdinThenSolver::receive_score (strategy.rs 264-273); printed is TRUE when
\* StdinGuesser::receive_score printed "Score was .." (strategy.rs 105-107)
then_solver_receive_score(self, sc) ==
    IF self.strategy.kind = "Stdin"
    THEN IF self.last_guess = None
         THEN [panic |-> TRUE, self |-> self, printed |-> FALSE]
         ELSE [panic |-> FALSE,
               self |-> [self EXCEPT !.viable_words =
                                        retain_viable_words(@, self.last_guess, sc)],
               printed |-> TRUE]
    ELSE LET r == receive_score(self.strategy.algo, sc)
         IN [panic |-> r.panic,
             self |-> [self EXCEPT !.strategy = Algo(r.self)],
             printed |-> FALSE]

----------------------------------------------------------------------------
(* engine.rs StandardEngine *)

\* StandardEngine::new (engine.rs 22-32)
StandardEngine_new(secret_word, word_list, num_guesses) ==
    [word |-> secret_word,
     word_list |-> word_list,
     guesses_remaining |-> num_guesses]

\* StandardEngine::score_guess (engine.rs 36-57): the engine after the call and
\* the GuessResult, or the expect's panic on a guess outside the word list
score_guess(self, g) ==
    IF ~Contains(self.word_list, g)
    THEN [panic |-> TRUE, self |-> self, ret |-> NoRet]
    ELSE LET sc == evaluate_guess(self.word, g)
         IN IF AllRightPlace(sc)
            THEN [panic |-> FALSE, self |-> self, ret |-> Done(TRUE)]
            ELSE IF self.guesses_remaining = 0
                 THEN [panic |-> FALSE, self |-> self, ret |-> Done(FALSE)]
                 ELSE [panic |-> FALSE,
                       self |-> [self EXCEPT !.guesses_remaining = @ - 1],
                       ret |-> Continue(sc)]

----------------------------------------------------------------------------
(* Dictionaries and secrets of the sessions *)

GameLetters == {"a", "x", "y"}

\* the words p q q .. q
PatternWord(p, q) == <<p>> \o Repeat(q, WORD_LENGTH - 1)

\* what the strategy's transmute_copy of CRATE can yield
Openers == TransmuteCopy(CRATE, WORD_LENGTH, GameLetters)

\* the first and the other letters of the pool's words
PoolPatterns == {<<"x", "a">>, <<"y", "a">>, <<"x", "y">>, <<"a", "x">>}

\* the words dictionaries are made of, and callers guess: the opener, two words
\* it scores alike (x a a, y a a), two it scores apart
Pool == {PatternWord(l[1], l[2]) : l \in PoolPatterns} \cup Openers

\* the lists of 1..n distinct words of the pool
Dictionaries(n) ==
    UNION {{d \in [1..k -> Pool] : \A i \in 1..k : \A j \in 1..k : i # j => d[i] # d[j]}
           : k \in 1..n}

\* any list of at most n words of the pool, repeated words included
WordLists(n) == UNION {[1..k -> Pool] : k \in 0..n}

\* every score
Scores == WordsOver(LetterScore, WORD_LENGTH)

\* what the solver's transmute_copy of AROSE can yield
SolverOpeners == TransmuteCopy(AROSE, WORD_LENGTH, GameLetters)

\* the dictionaries SimpleStrategy::new is handed: those of the sessions and
\* the empty one
SolverDictionaries == Dictionaries(MaxDictLen) \cup {<<>>}

\* the scores an engine hands back for guess g (typed in at engine.rs
\* StdinEvaluator, or computed): the score of g against some word of the pool,
\* not bound to be the same word from round to round
TypedScores(g) == {evaluate_guess(s, g) : s \in Pool}

\* the caps run_strategy is instantiated with
Caps == (0..MaxCap) \cup {TestCap}

IdleEval == [self |-> None, guess |-> None, score |-> None, annotations |-> None]
IdleNarrow == [given |-> <<>>, viable_words |-> <<>>, guess |-> None, score |-> None,
               calls |-> 0]
IdleThenSolver == StdinThenSolver_new(<<>>)
IdleSolver == SimpleStrategy_new(<<>>)
IdleEngine == StandardEngine_new(None, <<>>, 0)
IdleGame == [state |-> [guesses |-> <<>>],
             engine |-> [word_list |-> <<>>, secret_word |-> None]]

\* a new session over a dictionary holding the secret (run_strategy asserts
\* it, lib.rs 128), and a new strategy (lib.rs 129-138)
NewSession(word_list, secret_word, cap) ==
    /\ game = [state |-> [guesses |-> <<>>],
               engine |-> [word_list |-> word_list, secret_word |-> secret_word]]
    /\ NUM_GUESSES = cap
    /\ strategy = init(word_list)
    /\ guess = None
    /\ ret = NoRet
    /\ result = NoRet
    /\ stdout = <<>>
    /\ eval = IdleEval
    /\ narrow = IdleNarrow
    /\ solver = IdleSolver
    /\ then_solver = IdleThenSolver
    /\ standard_engine = IdleEngine

----------------------------------------------------------------------------
(* Spec: lib.rs run_strategy *)

Init ==
    /\ \E d \in Dictionaries(MaxDictLen) : \E s \in Elems(d) : \E cap \in Caps :
           NewSession(d, s, cap)
    /\ pc = "strategy"

\* strategy.make_guess() by a strategy that is shown the secret: after the
\* openers it guesses it
StrategyMakeGuessSeesSecret ==
    /\ pc = "strategy"
    /\ \E opener \in Openers :
         LET r == strategy_make_guess(strategy, opener)
             g == IF strategy.num_guesses >= 2 THEN game.engine.secret_word ELSE r.guess
         IN IF r.panic
            THEN /\ pc' = "panic"
                 /\ UNCHANGED <<strategy, guess, stdout>>
            ELSE /\ strategy' = [r.self EXCEPT !.last_guess = g]
                 /\ guess' = g
                 /\ stdout' = Append(stdout, <<"Guess", g>>)
                 /\ pc' = "game"
    /\ UNCHANGED <<then_solver, eval, narrow, solver, standard_engine, game, NUM_GUESSES, ret, result>>

\* strategy.make_guess() at the head of the loop (lib.rs 141)
StrategyMakeGuess ==
    /\ pc = "strategy"
    /\ \E opener \in Openers :
         LET r == strategy_make_guess(strategy, opener)
         IN IF r.panic
            THEN /\ pc' = "panic"
                 /\ UNCHANGED <<strategy, guess, stdout>>
            ELSE /\ strategy' = r.self
                 /\ guess' = r.guess
                 /\ stdout' = Append(stdout, <<"Guess", r.guess>>)
                 /\ pc' = "game"
    /\ UNCHANGED <<then_solver, eval, narrow, solver, standard_engine, game, NUM_GUESSES, ret, result>>

\* game.make_guess(..)? (lib.rs 141): an Err is returned by the ?
GameMakeGuess ==
    /\ pc = "game"
    /\ LET r == make_guess(game, NUM_GUESSES, guess)
       IN /\ game' = r.game
          /\ ret' = r.ret
          /\ IF r.ret.kind = "Err"
             THEN result' = r.ret /\ pc' = "returned"
             ELSE result' = result /\ pc' = "match"
    /\ UNCHANGED <<then_solver, eval, narrow, solver, standard_engine, NUM_GUESSES, strategy, guess, stdout>>

\* GuessResult::Continue(answer) => strategy.receive_answer(answer) (lib.rs 142)
ReceiveAnswer ==
    /\ pc = "match"
    /\ ret.val.kind = "Continue"
    /\ LET r == receive_answer(strategy, ret.val.val)
       IN IF r.panic
          THEN /\ pc' = "panic"
               /\ UNCHANGED <<strategy, stdout>>
          ELSE /\ strategy' = r.self
               /\ stdout' = Append(stdout, <<"Answer", ret.val.val>>)
               /\ pc' = "strategy"
    /\ UNCHANGED <<then_solver, eval, narrow, solver, standard_engine, game, NUM_GUESSES, guess, ret, result>>

\* GuessResult::Done(result) => return Ok((result, game.state)) (lib.rs 143)
Return ==
    /\ pc = "match"
    /\ ret.val.kind = "Done"
    /\ result' = Ok(<<ret.val.val, game.state>>)
    /\ pc' = "returned"
    /\ UNCHANGED <<then_solver, eval, narrow, solver, standard_engine, game, NUM_GUESSES, strategy, guess, ret, stdout>>

Next == StrategyMakeGuess \/ GameMakeGuess \/ ReceiveAnswer \/ Return

Spec == Init /\ [][Next]_vars

----------------------------------------------------------------------------
(* SpecGame: a Game whose make_guess is called by any caller, with any word *)

InitGame ==
    /\ \E d \in Dictionaries(MaxGameDictLen) : \E s \in Elems(d) : \E cap \in 1..MaxCap :
           NewSession(d, s, cap)
    /\ pc = "caller"

\* one call game.make_guess(word), on a Game that was made
CallMakeGuess ==
    /\ pc = "caller"
    /\ game # IdleGame
    /\ \E word \in Pool :
         LET r == make_guess(game, NUM_GUESSES, word)
         IN /\ game' = r.game
            /\ ret' = r.ret
            /\ guess' = word
    /\ UNCHANGED <<then_solver, eval, narrow, solver, standard_engine, NUM_GUESSES, strategy, pc, result, stdout>>

NextGame == CallMakeGuess

SpecGame == InitGame /\ [][NextGame]_vars

----------------------------------------------------------------------------
(* SpecEval: Word::evaluate_guess applied to a secret and a guess *)

InitEval ==
    /\ \E p \in EvalInputs :
           eval = [self |-> p[1], guess |-> p[2], score |-> None, annotations |-> None]
    /\ narrow = IdleNarrow
    /\ solver = IdleSolver
    /\ then_solver = IdleThenSolver
    /\ standard_engine = IdleEngine
    /\ game = IdleGame
    /\ NUM_GUESSES = 0
    /\ strategy = init(<<>>)
    /\ pc = "eval"
    /\ guess = None
    /\ ret = NoRet
    /\ result = NoRet
    /\ stdout = <<>>

\* self.evaluate_guess(&guess)
Evaluate ==
    /\ pc = "eval"
    /\ eval.score = None
    /\ eval' = [eval EXCEPT !.score = evaluate_guess(eval.self, eval.guess)]
    /\ UNCHANGED <<then_solver, narrow, solver, standard_engine, game, NUM_GUESSES, strategy, pc, guess, ret,
                   result, stdout>>

\* Engine { secret_word: self, .. }.evaluate_no_wordlist(guess)
EvaluateNoWordlist ==
    /\ pc = "eval"
    /\ eval.annotations = None
    /\ eval' = [eval EXCEPT !.annotations = evaluate_no_wordlist(eval.self, eval.guess)]
    /\ UNCHANGED <<then_solver, narrow, solver, standard_engine, game, NUM_GUESSES, strategy, pc, guess, ret,
                   result, stdout>>

NextEval == Evaluate \/ EvaluateNoWordlist

SpecEval == InitEval /\ [][NextEval]_vars

----------------------------------------------------------------------------
(* SpecNarrow: WordList::retain_viable_words applied to a list, a guess and a
   score, next to the sessions of run_strategy, whose receive_answer narrows
   the strategy's candidates *)

InitRetain ==
    /\ \E l \in WordLists(MaxRetainLen) : \E g \in Pool : \E sc \in Scores :
           narrow = [given |-> l, viable_words |-> l, guess |-> g, score |-> sc,
                     calls |-> 0]
    /\ eval = IdleEval
    /\ solver = IdleSolver
    /\ then_solver = IdleThenSolver
    /\ standard_engine = IdleEngine
    /\ game = IdleGame
    /\ NUM_GUESSES = 0
    /\ strategy = init(<<>>)
    /\ pc = "retain"
    /\ guess = None
    /\ ret = NoRet
    /\ result = NoRet
    /\ stdout = <<>>

\* viable_words.retain_viable_words(&guess, &score)
RetainViableWords ==
    /\ pc = "retain"
    /\ narrow.calls < MaxRetainCalls
    /\ narrow' = [narrow EXCEPT
                     !.viable_words = retain_viable_words(@, narrow.guess, narrow.score),
                     !.calls = @ + 1]
    /\ UNCHANGED <<then_solver, eval, solver, standard_engine, game, NUM_GUESSES, strategy, pc, guess,
                   ret, result, stdout>>

InitNarrow == InitRetain \/ Init

NextNarrow == RetainViableWords \/ Next

SpecNarrow == InitNarrow /\ [][NextNarrow]_vars

----------------------------------------------------------------------------
(* SpecSolver: a strategy.rs SimpleStrategy under a caller that asks for a
   guess and hands back a score in turn, as a game loop does (a caller may
   also hand a score to a new strategy), the score being any an engine may
   hand back *)

InitSolver ==
    /\ \E d \in SolverDictionaries : solver = SimpleStrategy_new(d)
    /\ then_solver = IdleThenSolver
    /\ eval = IdleEval
    /\ narrow = IdleNarrow
    /\ standard_engine = IdleEngine
    /\ game = IdleGame
    /\ NUM_GUESSES = 0
    /\ strategy = init(<<>>)
    /\ pc = "new"
    /\ guess = None
    /\ ret = NoRet
    /\ result = NoRet
    /\ stdout = <<>>

\* one call solver.make_guess(), on a new strategy or after a score
SolverMakeGuess ==
    /\ pc \in {"new", "receive_score"}
    /\ solver.num_guesses < MaxSolverGuesses
    /\ \E opener \in SolverOpeners :
         LET r == solver_make_guess(solver, opener)
         IN IF r.panic
            THEN /\ pc' = "panic"
                 /\ UNCHANGED <<solver, guess>>
            ELSE /\ solver' = r.self
                 /\ guess' = r.guess
                 /\ pc' = "make_guess"
    /\ UNCHANGED <<then_solver, eval, narrow, standard_engine, game, NUM_GUESSES, strategy, ret, result,
                   stdout>>

\* one call solver.receive_score(&score), for the guess just made (or on a
\* new strategy, where the expect panics)
SolverReceiveScore ==
    /\ pc \in {"new", "make_guess"}
    /\ \E sc \in (IF guess = None THEN {Repeat(Wrong, WORD_LENGTH)} ELSE TypedScores(guess)) :
         LET r == receive_score(solver, sc)
         IN IF r.panic
            THEN /\ pc' = "panic"
                 /\ UNCHANGED solver
            ELSE /\ solver' = r.self
                 /\ pc' = "receive_score"
    /\ UNCHANGED <<then_solver, eval, narrow, standard_engine, game, NUM_GUESSES, strategy, guess, ret,
                   result, stdout>>

NextSolver == SolverMakeGuess \/ SolverReceiveScore

SpecSolver == InitSolver /\ [][NextSolver]_vars

----------------------------------------------------------------------------
(* SpecStrategies: either strategy at work, the lib.rs SimpleStrategy in
   run_strategy or the strategy.rs SimpleStrategy under its caller *)

InitStrategies == Init \/ InitSolver

NextStrategies == Next \/ NextSolver

SpecStrategies == InitStrategies /\ [][NextStrategies]_vars

----------------------------------------------------------------------------
(* SpecEngine: a StandardEngine whose score_guess is called by any caller,
   with any word, also after it returned Done *)

InitEngine ==
    /\ \E d \in Dictionaries(MaxGameDictLen) : \E s \in Elems(d) : \E n \in 1..MaxCap :
           /\ standard_engine = StandardEngine_new(s, d, n)
           /\ NUM_GUESSES = n
    /\ eval = IdleEval
    /\ narrow = IdleNarrow
    /\ solver = IdleSolver
    /\ then_solver = IdleThenSolver
    /\ game = IdleGame
    /\ strategy = init(<<>>)
    /\ pc = "caller"
    /\ guess = None
    /\ ret = NoRet
    /\ result = NoRet
    /\ stdout = <<>>

\* one call engine.score_guess(&word), on a StandardEngine that was made; the
\* caller is at "caller" until a call returns Done, at "done" from then on
ScoreGuess ==
    /\ pc \in {"caller", "done"}
    /\ standard_engine # IdleEngine
    /\ \E word \in Pool :
         LET r == score_guess(standard_engine, word)
         IN IF r.panic
            THEN /\ pc' = "panic"
                 /\ UNCHANGED <<standard_engine, ret, guess>>
            ELSE /\ standard_engine' = r.self
                 /\ ret' = r.ret
                 /\ guess' = word
                 /\ pc' = IF r.ret.kind = "Done" THEN "done" ELSE pc
    /\ UNCHANGED <<then_solver, eval, narrow, solver, game, NUM_GUESSES, strategy, result, stdout>>

NextEngine == ScoreGuess

SpecEngine == InitEngine /\ [][NextEngine]_vars

----------------------------------------------------------------------------
(* SpecHandover: a StdinThenSolver under a caller that asks for a guess and
   hands back its score in turns (main.rs 8-10), the user at the terminal
   answering the prompts; start_solver is public and may be called between
   the turns *)

\* the word list main.rs hands to StdinThenSolver::new: one fixed list of
\* distinct words, here the first words of the pool's pattern words
HandoverDictionaries ==
    {SubSeq(<<PatternWord("x", "a"), PatternWord("y", "a"),
              PatternWord("x", "y"), PatternWord("a", "x")>>, 1, k) : k \in 1..MaxGameDictLen}

InitHandover ==
    /\ \E d \in HandoverDictionaries : then_solver = StdinThenSolver_new(d)
    /\ eval = IdleEval
    /\ narrow = IdleNarrow
    /\ solver = IdleSolver
    /\ standard_engine = IdleEngine
    /\ game = IdleGame
    /\ NUM_GUESSES = 0
    /\ strategy = init(<<>>)
    /\ pc = "new"
    /\ guess = None
    /\ ret = NoRet
    /\ result = NoRet
    /\ stdout = <<>>

\* the interactive guesses scored so far: the "Score was .." lines
ScoredInteractively == Len(SelectSeq(stdout, LAMBDA line : line[1] = "Score was"))

\* one call then_solver.make_guess(), on a new strategy or after a score
ThenSolverMakeGuess ==
    /\ pc \in {"new", "receive_score"}
    /\ \E answer \in BOOLEAN : \E typed \in Pool : \E opener \in SolverOpeners :
         /\ then_solver.strategy.kind = "Stdin" /\ ~answer =>
                ScoredInteractively < MaxStdinGuesses
         /\ then_solver.strategy.kind = "Algo" =>
                then_solver.strategy.algo.num_guesses < MaxSolverGuesses
         /\ LET r == then_solver_make_guess(then_solver, answer, typed, opener)
            IN /\ then_solver' = r.self
               /\ IF r.panic
                  THEN pc' = "panic" /\ guess' = guess
                  ELSE pc' = "make_guess" /\ guess' = r.guess
    /\ UNCHANGED <<eval, narrow, solver, standard_engine, game, NUM_GUESSES, strategy, ret,
                   result, stdout>>

\* one call then_solver.receive_score(&score), for the guess just made
ThenSolverReceiveScore ==
    /\ pc = "make_guess"
    /\ \E sc \in TypedScores(guess) :
         LET r == then_solver_receive_score(then_solver, sc)
         IN /\ then_solver' = r.self
            /\ pc' = IF r.panic THEN "panic" ELSE "receive_score"
            /\ stdout' = IF r.printed THEN Append(stdout, <<"Score was", sc>>) ELSE stdout
    /\ UNCHANGED <<eval, narrow, solver, standard_engine, game, NUM_GUESSES, strategy, guess,
                   ret, result>>

\* one call then_solver.start_solver() from outside make_guess
CallStartSolver ==
    /\ pc \in {"new", "make_guess", "receive_score"}
    /\ LET r == start_solver(then_solver)
       IN /\ then_solver' = r.self
          /\ pc' = IF r.panic THEN "panic" ELSE pc
    /\ UNCHANGED <<eval, narrow, solver, standard_engine, game, NUM_GUESSES, strategy, guess,
                   ret, result, stdout>>

NextHandover == ThenSolverMakeGuess \/ ThenSolverReceiveScore \/ CallStartSolver

SpecHandover == InitHandover /\ [][NextHandover]_vars

----------------------------------------------------------------------------
(* SpecLoop: run_strategy's loop (lib.rs 140-145) over any implementation S of
   the Strategy trait: make_guess may return any word, receive_answer is S's
   own business *)

InitLoop ==
    /\ \E d \in Dictionaries(MaxGameDictLen) : \E s \in Elems(d) : \E cap \in 0..MaxCap :
           NewSession(d, s, cap)
    /\ pc = "strategy"

\* strategy.make_guess() of any strategy (lib.rs 141)
AnyMakeGuess ==
    /\ pc = "strategy"
    /\ \E word \in Pool : guess' = word
    /\ pc' = "game"
    /\ UNCHANGED <<then_solver, eval, narrow, solver, standard_engine, game, NUM_GUESSES, strategy, ret, result, stdout>>

\* GuessResult::Continue(answer) => strategy.receive_answer(answer) of any
\* strategy (lib.rs 142)
AnyReceiveAnswer ==
    /\ pc = "match"
    /\ ret.val.kind = "Continue"
    /\ pc' = "strategy"
    /\ UNCHANGED <<then_solver, eval, narrow, solver, standard_engine, game, NUM_GUESSES, strategy, guess, ret, result, stdout>>

NextLoop == AnyMakeGuess \/ GameMakeGuess \/ AnyReceiveAnswer \/ Return

\* the places of the loop: before strategy.make_guess, before game.make_guess,
\* at the match, after a return
LoopLabels == {"strategy", "game", "match", "returned"}

\* the thread running the loop moves on from wherever it is, until it has
\* returned
Proceed == pc # "returned" /\ \E l \in LoopLabels \ {pc} : pc' = l

\* the loop is sequential code run by one thread that is never held up: as
\* long as run_strategy has not returned, its next step is taken
SpecLoop == InitLoop /\ [][NextLoop]_vars /\ WF_pc(Proceed)

----------------------------------------------------------------------------
(* SpecSessions: either kind of session under any caller, a lib.rs Game or an
   engine.rs StandardEngine *)

InitSessions == InitGame \/ InitEngine

NextSessions == CallMakeGuess \/ ScoreGuess

SpecSessions == InitSessions /\ [][NextSessions]_vars

----------------------------------------------------------------------------
(* Claims about scoring (SpecEval) *)

\* the secret's letters equal to c at the positions not matched in place
Available(secret, g, c) ==
    Cardinality({k \in 1..Len(secret) : secret[k] # g[k] /\ secret[k] = c})

\* the guess's letters equal to c before position i, not matched in place
ClaimedBefore(secret, g, i, c) ==
    Cardinality({j \in 1..(i - 1) : g[j] # secret[j] /\ g[j] = c})

\* the two-pass reference score: RightPlace where the letters agree; elsewhere
\* RightLetter iff the letter's remaining count is still positive, each
\* earlier guess position with that letter having taken one while one was left
TwoPassScore(secret, g) ==
    [i \in 1..Len(g) |->
        IF g[i] = secret[i] THEN RightPlace
        ELSE IF ClaimedBefore(secret, g, i, g[i]) < Available(secret, g, g[i])
             THEN RightLetter
             ELSE Wrong]

\* C1: for every secret and guess of the same length, evaluate_guess(secret,
\* guess) is the two-pass reference score, and on the eight cases of
\* test_evaluate it is the score the test expects.
C1_EvaluateGuessIsTwoPass ==
    eval.score # None =>
        /\ eval.score = TwoPassScore(eval.self, eval.guess)
        /\ \A t \in TestCases :
               (eval.self = t[1] /\ eval.guess = t[2]) => eval.score = t[3]

\* a repeated-letter case was scored: secret yyx, guess xyy
C1_Witness ==
    /\ eval.self = <<"y", "y", "x">>
    /\ eval.guess = <<"x", "y", "y">>
    /\ eval.score = <<RightLetter, RightPlace, RightLetter>>

AllWrong(sc) == \A i \in 1..Len(sc) : sc[i] = Wrong

\* C13: for every secret and guess of the same length over the alphabet,
\* Engine::evaluate_no_wordlist (used flags) returns the score that
\* Word::evaluate_guess (availability counter) returns.
C13_ScorersAgree ==
    (eval.score # None /\ eval.annotations # None) => eval.annotations = eval.score

\* both scorers have scored a guess whose repeated letter the secret holds
\* once: secret aab, guess bba
C13_Witness ==
    /\ eval.self = <<"a", "a", "b">>
    /\ eval.guess = <<"b", "b", "a">>
    /\ eval.score = <<RightLetter, Wrong, RightLetter>>
    /\ eval.annotations = <<RightLetter, Wrong, RightLetter>>

\* C14: a word scored against itself is RightPlace at every position, by
\* evaluate_guess and by evaluate_no_wordlist.
C14_SelfScoreAllRightPlace ==
    eval.self = eval.guess =>
        /\ eval.score # None => AllRightPlace(eval.score)
        /\ eval.annotations # None => AllRightPlace(eval.annotations)

\* a word with a repeated letter was scored against itself by both scorers
C14_Witness ==
    /\ eval.self = <<"a", "b", "a">>
    /\ eval.guess = eval.self
    /\ eval.score # None
    /\ eval.annotations # None

\* C15: when the secret and the guess share no letter, the score is Wrong at
\* every position, and so is the score with the two words exchanged.
C15_DisjointAllWrong ==
    (Elems(eval.self) \cap Elems(eval.guess) = {}) =>
        /\ eval.score # None =>
               /\ AllWrong(eval.score)
               /\ AllWrong(evaluate_guess(eval.guess, eval.self))
        /\ eval.annotations # None => AllWrong(eval.annotations)

\* two words without a common letter were scored
C15_Witness ==
    /\ eval.self = <<"a", "a", "b">>
    /\ eval.guess = <<"c", "c", "c">>
    /\ eval.score = <<Wrong, Wrong, Wrong>>

\* the number of positions of word w holding letter x
Occurrences(w, x) == Cardinality({i \in 1..Len(w) : w[i] = x})

\* the number of positions of guess g holding x that sc marks RightPlace or
\* RightLetter
Credited(g, sc, x) ==
    Cardinality({i \in 1..Len(g) : g[i] = x /\ sc[i] \in {RightPlace, RightLetter}})

\* the lesser of two numbers
Lesser(m, n) == IF m <= n THEN m ELSE n

\* C24: for every secret, guess and letter x, the guess positions holding x
\* that are scored RightPlace or RightLetter are as many as the lesser of x's
\* occurrences in the secret and in the guess, by evaluate_guess and by
\* evaluate_no_wordlist.
C24_RepeatedLettersCounted ==
    \A x \in Elems(eval.self) \cup Elems(eval.guess) :
        LET due == Lesser(Occurrences(eval.self, x), Occurrences(eval.guess, x))
        IN /\ eval.score # None => Credited(eval.guess, eval.score, x) = due
           /\ eval.annotations # None => Credited(eval.guess, eval.annotations, x) = due

\* both scorers have scored a guess holding a letter three times that the
\* secret holds twice, once in place: secret aba, guess aaa
C24_Witness ==
    /\ eval.self = <<"a", "b", "a">>
    /\ eval.guess = <<"a", "a", "a">>
    /\ eval.score = <<RightPlace, Wrong, RightPlace>>
    /\ eval.annotations = eval.score

----------------------------------------------------------------------------
(* Claims about narrowing (SpecNarrow) *)

\* the positions of old whose word, taken as the secret, scores observed
\* against g
KeptIndices(old, g, observed) ==
    {k \in 1..Len(old) : evaluate_guess(old[k], g) = observed}

\* new holds the words of old at those positions and no other, in old's order
ExactlyRetained(old, new, g, observed) ==
    LET K == KeptIndices(old, g, observed)
    IN /\ Len(new) = Cardinality(K)
       /\ \A i \in 1..Len(new) :
              \E k \in K : new[i] = old[k] /\ Cardinality({j \in K : j < k}) = i - 1

\* C11: a call of retain_viable_words(guess, observed), and the retain of a
\* lib.rs receive_answer(observed) after guess, leave exactly the previous
\* candidates c with score(c, guess) = observed, in their previous order; no
\* other step changes the candidates, and the reference dictionary (the list
\* as given) never changes.
C11_RetainExact ==
    [][/\ narrow'.calls # narrow.calls =>
              ExactlyRetained(narrow.viable_words, narrow'.viable_words,
                              narrow.guess, narrow.score)
       /\ narrow'.given = narrow.given
       /\ IF pc = "match" /\ pc' = "strategy"
          THEN ExactlyRetained(strategy.viable_words, strategy'.viable_words,
                               strategy.last_guess, ret.val.val)
          ELSE strategy'.viable_words = strategy.viable_words
       /\ strategy'.word_list = strategy.word_list]_vars

\* a list of two words was narrowed to its second word
C11_Witness ==
    /\ narrow.calls = 1
    /\ Len(narrow.given) = 2
    /\ narrow.viable_words = <<narrow.given[2]>>
    /\ narrow.given[1] # narrow.given[2]

\* C12: narrowing a second time (and any further time) with the same guess
\* and observed score leaves the list as the first narrowing left it.
C12_RetainIdempotent ==
    [][(narrow.calls >= 1 /\ narrow'.calls = narrow.calls + 1) =>
           narrow'.viable_words = narrow.viable_words]_vars

\* a list was narrowed twice, the first time losing a word and keeping one
C12_Witness ==
    /\ narrow.calls = 2
    /\ Len(narrow.viable_words) = 1
    /\ Len(narrow.given) = 2

----------------------------------------------------------------------------
(* Claims about the candidate set (Spec) *)

\* C2: when every score comes from scoring the guess against the true secret,
\* the secret is in the strategy's viable_words after any number of
\* receive_answer calls; and one more narrowing of the candidates a round
\* starts with, by retain_viable_words with any guess and its true score,
\* keeps it.
C2_SecretStaysViable ==
    /\ Contains(strategy.viable_words, game.engine.secret_word)
    /\ pc = "strategy" => \A w \in Pool :
           Contains(retain_viable_words(strategy.viable_words, w,
                                        evaluate_guess(game.engine.secret_word, w)),
                    game.engine.secret_word)

\* an answer was received and removed candidates
C2_Witness ==
    /\ pc = "strategy"
    /\ Len(stdout) >= 2
    /\ Len(strategy.viable_words) < Len(strategy.word_list)
    /\ Len(strategy.viable_words) >= 2

----------------------------------------------------------------------------
(* Claims about Game::make_guess (SpecGame) *)

IsErr(r, e) == r.kind = "Err" /\ r.val = e
IsDone(r, b) == r.kind = "Ok" /\ r.val.kind = "Done" /\ r.val.val = b

\* make_guess has returned Done(true) or Done(false) in this session
HasReturnedDone ==
    LET guesses == game.state.guesses
    IN \/ \E i \in 1..Len(guesses) : AllRightPlace(guesses[i][2])
       \/ Len(guesses) >= 1 /\ Len(guesses) = NUM_GUESSES

\* C3 as claimed: once make_guess has returned Done(true) or Done(false), every
\* further call returns Err(TooManyGuesses) and leaves the guess history alone.
C3_AfterDoneTooManyGuesses ==
    [][HasReturnedDone => (IsErr(ret', "TooManyGuesses") /\ game' = game)]_vars

\* C4 as claimed: in every session state a call with a word that is not in the
\* dictionary returns Err(NotInWordList) and leaves the guess history and the
\* strategy's candidates alone.
C4_AlwaysNotInWordList ==
    [][~Contains(game.engine.word_list, guess') =>
           /\ IsErr(ret', "NotInWordList")
           /\ game' = game
           /\ strategy' = strategy]_vars

\* C4 as amended: a call with a word that is not in the dictionary returns
\* Err(NotInWordList) while fewer than NUM_GUESSES guesses are recorded and
\* Err(TooManyGuesses) once NUM_GUESSES are; either way the guess history and
\* the strategy's candidates are left alone.
C4_NotInWordListBelowCap ==
    [][~Contains(game.engine.word_list, guess') =>
           /\ IF Len(game.state.guesses) < NUM_GUESSES
              THEN IsErr(ret', "NotInWordList")
              ELSE IsErr(ret', "TooManyGuesses")
           /\ game' = game
           /\ strategy' = strategy]_vars

\* a word outside the dictionary was refused in a session with a recorded guess
C4_Witness ==
    /\ pc = "caller"
    /\ guess # None
    /\ ~Contains(game.engine.word_list, guess)
    /\ IsErr(ret, "NotInWordList")
    /\ Len(game.state.guesses) >= 1

\* C5: at most NUM_GUESSES guesses are ever recorded; the call that records
\* the NUM_GUESSES-th returns Done(false) unless it is a win; a call made with
\* NUM_GUESSES guesses recorded returns Err(TooManyGuesses) and records nothing.
C5_GuessCap ==
    [][/\ Len(game'.state.guesses) <= NUM_GUESSES
       /\ (Len(game.state.guesses) < NUM_GUESSES /\ Len(game'.state.guesses) = NUM_GUESSES) =>
              LET last == game'.state.guesses[NUM_GUESSES]
              IN IF AllRightPlace(last[2]) THEN IsDone(ret', TRUE) ELSE IsDone(ret', FALSE)
       /\ Len(game.state.guesses) = NUM_GUESSES =>
              (IsErr(ret', "TooManyGuesses") /\ game' = game)]_vars

\* a call was rejected at the cap, after a NUM_GUESSES-th guess that lost
C5_Witness ==
    /\ pc = "caller"
    /\ NUM_GUESSES >= 2
    /\ Len(game.state.guesses) = NUM_GUESSES
    /\ ~AllRightPlace(game.state.guesses[NUM_GUESSES][2])
    /\ IsErr(ret, "TooManyGuesses")

----------------------------------------------------------------------------
(* Claims about run_strategy and SimpleStrategy (Spec) *)

\* what the round's decision must be for the guess recorded last
Decision(last_score, made, cap) ==
    IF AllRightPlace(last_score) THEN Done(TRUE)
    ELSE IF made = cap THEN Done(FALSE)
    ELSE Continue(last_score)

\* C6: each round is decided in the order win (also on the last allowed
\* attempt), then lost at the cap, then continue; a continued round's score is
\* passed to receive_answer exactly once before the next make_guess, and
\* receive_answer is never called before a guess or after a terminal result:
\* the strategy's output alternates Guess, Answer, each Answer the score of the
\* guess before it, a non-terminal one.
C6_RoundOrder ==
    LET guesses == game.state.guesses
        made == Len(guesses)
    IN /\ (pc = "match" \/ (pc = "returned" /\ ret.kind = "Ok")) =>
              /\ made >= 1
              /\ ret.val = Decision(guesses[made][2], made, NUM_GUESSES)
              /\ Len(stdout) = 2 * made - 1
       /\ (pc = "returned" /\ ret.kind = "Ok") =>
              /\ ret.val.kind = "Done"
              /\ result = Ok(<<AllRightPlace(guesses[made][2]), game.state>>)
       /\ pc = "strategy" => Len(stdout) = 2 * made
       /\ (pc = "game" \/ (pc = "returned" /\ ret.kind = "Err")) =>
              Len(stdout) = 2 * made + 1
       /\ \A k \in 1..Len(stdout) :
              IF k % 2 = 1
              THEN stdout[k][1] = "Guess"
              ELSE /\ stdout[k][1] = "Answer"
                   /\ stdout[k][2] = guesses[k \div 2][2]
                   /\ stdout[k - 1][2] = guesses[k \div 2][1]
                   /\ ~AllRightPlace(stdout[k][2])
                   /\ k \div 2 < NUM_GUESSES

\* a win on the last allowed attempt, after a round that continued
C6_Witness ==
    /\ pc = "returned"
    /\ IsDone(ret, TRUE)
    /\ Len(game.state.guesses) = NUM_GUESSES
    /\ Len(stdout) >= 3

\* the keys max_by_key compares: the score of each word of the source
Keys(self, source) == [i \in 1..Len(source) |-> score(self, source[i])]
SolverKeys(self, source) == [i \in 1..Len(source) |-> solver_score(self, source[i])]

\* g is a word of source whose key is the greatest
IsMaximum(source, keys, g) ==
    \E i \in 1..Len(source) :
        /\ source[i] = g
        /\ \A j \in 1..Len(source) : keys[j] <= keys[i]

\* g is the word of source whose key is the greatest, the last of them in
\* source's order when several are
IsLastMaximum(source, keys, g) ==
    \E i \in 1..Len(source) :
        /\ source[i] = g
        /\ \A j \in 1..Len(source) : keys[j] <= keys[i]
        /\ \A j \in (i + 1)..Len(source) : keys[j] < keys[i]

\* the step is a make_guess of the lib.rs strategy that returned
LibGuessReturned == pc = "strategy" /\ pc' = "game"

\* the step is a make_guess of the strategy.rs strategy that returned
SolverGuessReturned == pc \in {"new", "receive_score"} /\ pc' = "make_guess"

\* C16: which guess a make_guess call returns is decided by the guess counter
\* alone: at counter 0 (lib.rs: 0 and 1) it is the hardcoded opener, be it in
\* the dictionary or not and whatever candidates and scores came before; at
\* any later counter it is a word of the heuristic's source set of greatest
\* score.
C16_PhaseByCounter ==
    [][/\ LibGuessReturned =>
              IF strategy.num_guesses <= 1
              THEN guess' \in Openers
              ELSE IsMaximum(Source(strategy), Keys(strategy, Source(strategy)), guess')
       /\ SolverGuessReturned =>
              IF solver.num_guesses = 0
              THEN guess' \in SolverOpeners
              ELSE IsMaximum(SolverSource(solver), SolverKeys(solver, SolverSource(solver)),
                             guess')]_vars

\* the lib.rs strategy returned the opener as its second guess, though the
\* first score had removed candidates, the opener among them
C16_Witness ==
    /\ pc = "game"
    /\ strategy.num_guesses = 2
    /\ guess \in Openers
    /\ ~Contains(strategy.viable_words, guess)
    /\ Len(strategy.viable_words) < Len(strategy.word_list)

\* C19: a heuristic guess is the word of the source set (the candidates when
\* one is left or at counter 9, else the dictionary) whose score is the
\* greatest, the last in the source's order among those of greatest score; so
\* the guess is a function of dictionary order, candidates and guess counter.
C19_LastMaximum ==
    [][/\ (LibGuessReturned /\ strategy.num_guesses >= 2) =>
              IsLastMaximum(Source(strategy), Keys(strategy, Source(strategy)), guess')
       /\ (SolverGuessReturned /\ solver.num_guesses >= 1) =>
              IsLastMaximum(SolverSource(solver), SolverKeys(solver, SolverSource(solver)),
                            guess')]_vars

\* the strategy.rs strategy returned a heuristic guess that an earlier,
\* different word of the source equals in score
C19_Witness ==
    /\ pc = "make_guess"
    /\ solver.num_guesses >= 2
    /\ LET before == [solver EXCEPT !.num_guesses = @ - 1]
           source == SolverSource(before)
       IN \E i \in 1..Len(source) : \E j \in (i + 1)..Len(source) :
              /\ source[j] = guess
              /\ source[i] # guess
              /\ solver_score(before, source[i]) = solver_score(before, guess)

\* the scores a session has returned so far
Answers(g) == [i \in 1..Len(g.state.guesses) |-> g.state.guesses[i][2]]

\* the opener, where the transmute_copy can yield one word only
TheOpener == CHOOSE opener \in Openers : TRUE

\* run_strategy over the same dictionary with another secret, followed for k
\* rounds: its strategy and its game after the k-th receive_answer; live is
\* FALSE once the run has ended
RECURSIVE OtherRun(_, _, _, _)
OtherRun(word_list, secret_word, cap, k) ==
    IF k = 0
    THEN [live |-> TRUE,
          strategy |-> init(word_list),
          game |-> [state |-> [guesses |-> <<>>],
                    engine |-> [word_list |-> word_list, secret_word |-> secret_word]]]
    ELSE LET prev == OtherRun(word_list, secret_word, cap, k - 1)
             sg == strategy_make_guess(prev.strategy, TheOpener)
             mg == make_guess(prev.game, cap, sg.guess)
         IN IF ~prev.live THEN prev
            ELSE IF sg.panic THEN [prev EXCEPT !.live = FALSE]
            ELSE IF mg.ret.kind = "Err" \/ mg.ret.val.kind = "Done"
                 THEN [live |-> FALSE, strategy |-> sg.self, game |-> mg.game]
                 ELSE [live |-> TRUE,
                       strategy |-> receive_answer(sg.self, mg.ret.val.val).self,
                       game |-> mg.game]

\* the runs over this run's dictionary with another secret that have been
\* returned, up to now, the scores this run has been returned
SameScoresSoFar ==
    {other \in {OtherRun(game.engine.word_list, s, NUM_GUESSES, Len(Answers(game)))
                   : s \in Elems(game.engine.word_list) \ {game.engine.secret_word}} :
        other.live /\ Answers(other.game) = Answers(game)}

\* C17: a run over the same dictionary with another secret that has been
\* returned the same scores so far has the same strategy state, candidates
\* included, when the next guess is asked for, and makes the same next guess.
C17_SecretNotExposed ==
    /\ pc = "strategy" => \A other \in SameScoresSoFar : other.strategy = strategy
    /\ pc = "game" =>
           \A other \in SameScoresSoFar :
               LET sg == strategy_make_guess(other.strategy, TheOpener)
               IN ~sg.panic /\ sg.guess = guess /\ sg.self = strategy

\* a heuristic guess was made while another secret of the dictionary had
\* given the same scores
C17_Witness ==
    /\ pc = "game"
    /\ strategy.num_guesses >= 3
    /\ SameScoresSoFar # {}

\* C7 as claimed: every guess the strategy returns is in the reference
\* dictionary, and run_strategy never ends with Err(NotInWordList).
C7_GuessInDictionary ==
    /\ pc = "game" => Contains(game.engine.word_list, guess)
    /\ ~(pc = "returned" /\ IsErr(result, "NotInWordList"))

\* the words of a list that answer guess w differently from secret s
Differing(V, w, s) ==
    {c \in Elems(V) : evaluate_guess(c, w) # evaluate_guess(s, w)}

\* C8 as claimed: for every prospective guess w and non-empty candidate set V
\* (the candidates a round starts with), score(w) is the minimum over the
\* secrets s in V of the number of candidates in V whose score against w
\* differs from that of s.
C8_ScoreIsMaximin ==
    (pc = "strategy" /\ strategy.viable_words # <<>>) =>
        \A w \in Pool :
            score(strategy, w) =
                Min({Cardinality(Differing(strategy.viable_words, w, s))
                        : s \in Elems(strategy.viable_words)})

\* C8 as amended: score(w) is the minimum over the secrets s in V of the
\* number of candidates in V, other than w itself, whose score against w
\* differs from that of s.
C8_ScoreIsMaximinOverOthers ==
    (pc = "strategy" /\ strategy.viable_words # <<>>) =>
        \A w \in Pool :
            score(strategy, w) =
                Min({Cardinality(Differing(strategy.viable_words, w, s) \ {w})
                        : s \in Elems(strategy.viable_words)})

\* a heuristic round is about to score its words, among them a candidate whose
\* own elimination is what the two counts differ by
C8_Witness ==
    /\ pc = "strategy"
    /\ strategy.num_guesses >= 2
    /\ Len(strategy.viable_words) >= 2
    /\ \E w \in Elems(strategy.viable_words) :
           score(strategy, w) <
               Min({Cardinality(Differing(strategy.viable_words, w, s))
                       : s \in Elems(strategy.viable_words)})

\* C9 as claimed, for the heuristic rounds: a guess selected while one
\* candidate remains, or on the last attempt the cap allows, is a candidate;
\* any other is a word of the reference dictionary.
C9_LastAttemptFromCandidates ==
    (pc = "game" /\ strategy.num_guesses >= 3) =>
        IF Len(strategy.viable_words) = 1 \/ strategy.num_guesses = NUM_GUESSES
        THEN Contains(strategy.viable_words, guess)
        ELSE Contains(strategy.word_list, guess)

\* C10 as claimed, the runs that C7's Err(NotInWordList) ends set aside: with
\* the test's budget of 10, run_strategy ends with Ok((true, _)).
C10_WinsWithinBudget ==
    (pc = "returned" /\ NUM_GUESSES = TestCap /\ ~IsErr(result, "NotInWordList")) =>
        (result.kind = "Ok" /\ result.val[1] = TRUE)

----------------------------------------------------------------------------
(* Claims about the strategy.rs SimpleStrategy under its caller (SpecSolver) *)

\* C20: from a state whose candidate set is empty no make_guess call returns,
\* at guess counter 0 or later: the only steps are receive_score calls and
\* the panic.
C20_EmptyCandidatesPanic ==
    [][solver.viable_words = <<>> => pc' \in {"receive_score", "panic"}]_vars

\* make_guess panicked in the heuristic phase, after scores that no word of a
\* non-empty dictionary agrees with
C20_Witness ==
    /\ pc = "panic"
    /\ solver.viable_words = <<>>
    /\ solver.word_list # <<>>
    /\ solver.last_guess # None
    /\ solver.num_guesses >= 1

----------------------------------------------------------------------------
(* Claims about StandardEngine (SpecEngine) *)

\* the guesses scored so far by an engine that has not returned Done: each
\* took one of the num_guesses it was created with
GuessesScored == NUM_GUESSES - standard_engine.guesses_remaining

\* C18 as claimed: an engine created with cap n scores at most n guesses: the
\* n-th guess, when it is not a win, returns Done(false), and a guess after
\* the n-th is neither reported a win nor answered with its score.
C18_EngineCap ==
    [][(pc = "caller" /\ pc' # "panic") =>
           /\ (GuessesScored + 1 = NUM_GUESSES /\ guess' # standard_engine.word) =>
                  ret' = Done(FALSE)
           /\ GuessesScored >= NUM_GUESSES =>
                  (ret' # Done(TRUE) /\ ret'.kind # "Continue")]_vars

----------------------------------------------------------------------------
(* Claims about both kinds of session (SpecSessions) *)

\* guess and secret carry the same letter at every position
EqualAtEveryPosition(a, b) == \A i \in 1..WORD_LENGTH : a[i] = b[i]

\* the score recorded by the latest scored Game::make_guess call
LastScore(g) == g.state.guesses[Len(g.state.guesses)][2]

\* C23: a scored guess is reported Won if and only if it equals the secret
\* word. For Game::make_guess the recorded score is all RightPlace exactly when
\* guess and secret are equal at every position, and the result is Done(true)
\* exactly then; for StandardEngine::score_guess the result is Done(true)
\* exactly when the guess equals the engine's word.
C23_WonIffSecret ==
    [][/\ game' # game =>
              /\ (\A i \in 1..WORD_LENGTH : LastScore(game')[i] = RightPlace)
                     <=> EqualAtEveryPosition(guess', game.engine.secret_word)
              /\ IsDone(ret', TRUE) <=> guess' = game.engine.secret_word
       /\ (standard_engine # IdleEngine /\ pc' # "panic") =>
              (ret' = Done(TRUE) <=> guess' = standard_engine.word)]_vars

\* a Game scored a guess that shares a position with the secret without being
\* it, did not report a win, and then reported the win for the secret itself
C23_Witness ==
    /\ game # IdleGame
    /\ Len(game.state.guesses) = 2
    /\ game.state.guesses[1][1] # game.engine.secret_word
    /\ \E i \in 1..WORD_LENGTH : game.state.guesses[1][2][i] = RightPlace
    /\ \E i \in 1..WORD_LENGTH : game.state.guesses[1][2][i] # RightPlace
    /\ guess = game.engine.secret_word
    /\ IsDone(ret, TRUE)

----------------------------------------------------------------------------
(* Claims about run_strategy's loop (SpecLoop) *)

\* a step of the loop is possible wherever it has not returned, so that the
\* fairness of SpecLoop asks for nothing the loop cannot do
LoopNeverHeldUp == (pc # "returned") => ENABLED NextLoop

\* C22: every run_strategy execution terminates: whatever the strategy
\* guesses, the loop returns (Ok with win or loss, or Err), and no more than
\* NUM_GUESSES guesses are ever scored, also when NUM_GUESSES is 0 and when
\* the guesses eliminate no candidate.
C22_LoopTerminates ==
    /\ <>(pc = "returned" /\ result.kind \in {"Ok", "Err"})
    /\ [](Len(game.state.guesses) <= NUM_GUESSES)

\* the loop returned a loss after NUM_GUESSES scored guesses of one and the
\* same word, which after its first score eliminates no candidate
C22_Witness ==
    /\ pc = "returned"
    /\ NUM_GUESSES >= 2
    /\ Len(game.state.guesses) = NUM_GUESSES
    /\ \A i \in 1..Len(game.state.guesses) :
           game.state.guesses[i] = game.state.guesses[1]
    /\ result = Ok(<<FALSE, game.state>>)

----------------------------------------------------------------------------
(* Claims about StdinThenSolver (SpecHandover) *)

\* C21 as claimed: when StdinThenSolver hands over from the interactive
\* guesser to SimpleStrategy, at least one guess has been made and scored in
\* the interactive session; the switch is one-way: the solver is never started
\* a second time and the mode never returns to interactive.
C21_HandoverAfterScoredGuess ==
    [][/\ (then_solver.strategy.kind = "Stdin" /\ then_solver'.strategy.kind = "Algo") =>
              /\ then_solver.last_guess # None
              /\ ScoredInteractively >= 1
       /\ then_solver.strategy.kind = "Algo" =>
              /\ then_solver'.strategy.kind = "Algo"
              /\ then_solver'.strategy.algo.num_guesses >=
                     then_solver.strategy.algo.num_guesses]_vars

====
